---- MODULE Spec2Model ----
(***************************************************************************)
(* A model of ryegen's orchestration core (src/main.go): the module-path   *)
(* comparator, the unique module namer, the binding pipeline with its      *)
(* generic-implementation closure, the binding namer and TryRun.           *)
(*                                                                         *)
(* Strings are sequences of one-character strings, so that splitting,      *)
(* joining, prefix tests, lengths and byte-wise comparison are computed    *)
(* the way the Go code computes them.                                      *)
(***************************************************************************)
EXTENDS Integers, Sequences, FiniteSets, TLC

VARIABLES
    \* makeCompareModulePaths applied to three paths
    cmpPrefer, cmpArgs, cmpRes,
    \* recursivelyGetRepo, the naming block
    pkg, modDefaultNames, moduleNameKeys, modPc, modIdx,
    existingModuleNames, modUniqueNames,
    \* genBindings: the five loops over the symbol table and the closure
    genIR, genPc, genPos, bindings, resErr, deps, synthLog,
    genericIfaceImpls, scanKeys, scanPos, addedImpl, implCalls, passNo,
    \* TryRun, the binding namer
    sortedBindings, namePrios, nameCandidates, topNames, foundConflict,
    namerI, namerPc, bindingNames, everPeers, passStart,
    \* TryRun
    runPc, warn, outFile, stats, err, cfg, fs, fs0, parseRes

varsCmp == <<cmpPrefer, cmpArgs, cmpRes>>
varsMod == <<pkg, modDefaultNames, moduleNameKeys, modPc, modIdx,
             existingModuleNames, modUniqueNames>>
varsGen == <<genIR, genPc, genPos, bindings, resErr, deps, synthLog,
             genericIfaceImpls, scanKeys, scanPos, addedImpl, implCalls,
             passNo>>
varsNamer == <<sortedBindings, namePrios, nameCandidates, topNames,
               foundConflict, namerI, namerPc, bindingNames, everPeers,
               passStart>>
runRest == <<outFile, stats, err, cfg, fs, fs0, parseRes>>
varsRun == <<runPc, warn, runRest>>
vars == <<varsCmp, varsMod, varsGen, varsNamer, varsRun>>

(***************************************************************************)
(* Bounds of the model.                                                    *)
(***************************************************************************)
MaxModules == 3
\* The number of distinct generic-interface request keys.
MaxKeys == 2
\* The number of bindings the binding namer is run on.
MaxBindings == 3

(***************************************************************************)
(* Strings.                                                                *)
(***************************************************************************)
\* The characters used, in ASCII order.
Alphabet == <<"-", ".", "/", "1", "2", "3", "C", "_", "a", "b", "c", "f",
              "p", "q", "v", "x", "y">>

Code(c) == CHOOSE i \in 1..Len(Alphabet) : Alphabet[i] = c

Digits == {"1", "2", "3"}

DigitVal(c) == CHOOSE d \in 1..3 : <<"1", "2", "3">>[d] = c

Min(a, b) == IF a < b THEN a ELSE b

\* Go's < on strings: byte-wise lexicographic.
StrLess(s, t) ==
    \E k \in 1..(Min(Len(s), Len(t)) + 1) :
        /\ \A j \in 1..(k - 1) : s[j] = t[j]
        /\ \/ k > Len(s) /\ k <= Len(t)
           \/ k <= Len(s) /\ k <= Len(t) /\ Code(s[k]) < Code(t[k])

\* strings.Compare
StrCompare(s, t) == IF s = t THEN 0 ELSE IF StrLess(s, t) THEN -1 ELSE 1

\* strings.HasPrefix
HasPrefix(s, p) == Len(p) <= Len(s) /\ SubSeq(s, 1, Len(p)) = p

\* strings.Contains for a one-character needle
ContainsChar(s, c) == \E i \in 1..Len(s) : s[i] = c

RECURSIVE SplitFrom(_, _, _, _)
SplitFrom(s, sep, i, cur) ==
    IF i > Len(s) THEN <<cur>>
    ELSE IF s[i] = sep THEN <<cur>> \o SplitFrom(s, sep, i + 1, <<>>)
    ELSE SplitFrom(s, sep, i + 1, Append(cur, s[i]))

\* strings.Split(s, sep) for a one-character separator
Split(s, sep) == SplitFrom(s, sep, 1, <<>>)

RECURSIVE Join(_, _)
\* strings.Join(elems, sep) for a one-character separator
Join(elems, sep) ==
    IF Len(elems) = 0 THEN <<>>
    ELSE IF Len(elems) = 1 THEN elems[1]
    ELSE elems[1] \o <<sep>> \o Join(Tail(elems), sep)

RECURSIVE DecimalVal(_)
DecimalVal(ds) ==
    IF Len(ds) = 0 THEN 0
    ELSE 10 * DecimalVal(SubSeq(ds, 1, Len(ds) - 1)) + DigitVal(ds[Len(ds)])

\* strconv.Atoi succeeds: an optional sign followed by at least one digit.
AtoiOk(s) ==
    LET body == IF Len(s) >= 1 /\ s[1] = "-" THEN Tail(s) ELSE s
    IN  Len(body) >= 1 /\ \A i \in 1..Len(body) : body[i] \in Digits

AtoiVal(s) ==
    IF Len(s) >= 1 /\ s[1] = "-" THEN 0 - DecimalVal(Tail(s)) ELSE DecimalVal(s)

(***************************************************************************)
(* Module Orderer.                                                         *)
(***************************************************************************)
\* modulePathElementVersion parses strings like "v2", "v3" etc.
modulePathElementVersion(s) ==
    IF /\ HasPrefix(s, <<"v">>)
       /\ AtoiOk(Tail(s))
       /\ AtoiVal(Tail(s)) >= 1
    THEN AtoiVal(Tail(s))
    ELSE -1

IsNoVersion(v) == modulePathElementVersion(v) = -1

\* removeModulePathVersionElements removes all "v2", "v3" etc. parts.
removeModulePathVersionElements(s) ==
    Join(SelectSeq(Split(s, "/"), IsNoVersion), "/")

\* A comparator without the version tie-break.
VersionTieBreakNone(aOrig, bOrig) == 0

\* The version tie-break of the comparator (lines 104-125): 0 when no rule
\* decides.
VersionTieBreak(aOrig, bOrig) ==
    LET aSp == Split(aOrig, "/")
        bSp == Split(bOrig, "/")
        aVer == modulePathElementVersion(aSp[Len(aSp)])
        bVer == modulePathElementVersion(bSp[Len(bSp)])
    IN  IF Len(aSp) = Len(bSp) /\ aVer > bVer THEN -1
        ELSE IF Len(aSp) = Len(bSp) + 1 /\ aVer > 1 THEN -1
        ELSE IF Len(aSp) = Len(bSp) /\ aVer < bVer THEN 1
        ELSE IF Len(aSp) + 1 = Len(bSp) /\ bVer > 1 THEN 1
        ELSE 0

\* The comparator returned by makeCompareModulePaths(preferPkg).
compareModulePaths(preferPkg, aOrig, bOrig) ==
    LET a == removeModulePathVersionElements(aOrig)
        b == removeModulePathVersionElements(bOrig)
        aStd == ~ContainsChar(Split(a, "/")[1], ".")
        bStd == ~ContainsChar(Split(b, "/")[1], ".")
        aPfx == HasPrefix(aOrig, preferPkg)
        bPfx == HasPrefix(bOrig, preferPkg)
    IN  IF aStd /\ ~bStd THEN -1
        ELSE IF ~aStd /\ bStd THEN 1
        ELSE IF preferPkg # <<>> /\ aPfx /\ ~bPfx THEN -1
        ELSE IF preferPkg # <<>> /\ ~aPfx /\ bPfx THEN 1
        ELSE IF Len(a) < Len(b) THEN -1
        ELSE IF Len(a) > Len(b) THEN 1
        ELSE IF StrLess(b, a) THEN -1
        ELSE IF StrLess(a, b) THEN 1
        ELSE IF VersionTieBreak(aOrig, bOrig) # 0
             THEN VersionTieBreak(aOrig, bOrig)
        ELSE StrCompare(aOrig, bOrig)

(***************************************************************************)
(* Inputs: path segments and the module paths built from them.             *)
(***************************************************************************)
segF == <<"f">>
segAB == <<"a", ".", "b">>
segCB == <<"c", ".", "b">>
segP == <<"p">>
segQ == <<"q">>
segV1 == <<"v", "1">>
segV2 == <<"v", "2">>
segV3 == <<"v", "3">>

Path(segs) == Join(segs, "/")

\* Module paths the module namer is run on.
ModUniverse ==
    { Path(<<segF>>),
      Path(<<segAB, segP>>),
      Path(<<segAB, segP, segV2>>),
      Path(<<segAB, segP, segV2, segV3>>),
      Path(<<segAB, segQ, segP>>) }

\* Module paths the comparator is applied to.
PathUniverse ==
    ModUniverse \cup
    { Path(<<segAB, segP, segV3>>),
      Path(<<segAB, segP, segV1>>),
      Path(<<segAB, segQ>>),
      Path(<<segCB, segP>>) }

PreferUniverse == { <<>>, Path(<<segAB, segP>>), Path(<<segCB, segP>>) }

(***************************************************************************)
(* The comparator applied to three paths.                                  *)
(***************************************************************************)
NoRes == [done |-> FALSE]

IdleCmp == cmpPrefer = <<>> /\ cmpArgs = <<>> /\ cmpRes = NoRes

IdleMod ==
    /\ pkg = <<>>
    /\ modDefaultNames = <<>>
    /\ moduleNameKeys = <<>>
    /\ modPc = "idle"
    /\ modIdx = 0
    /\ existingModuleNames = {}
    /\ modUniqueNames = <<>>

\* binder.NewDependencies()
NoDeps == [Imports |-> {}, GenericInterfaceImpls |-> {}]

IdleGen ==
    /\ genIR = <<>>
    /\ genPc = "idle"
    /\ genPos = 0
    /\ bindings = <<>>
    /\ resErr = <<>>
    /\ deps = NoDeps
    /\ synthLog = <<>>
    /\ genericIfaceImpls = <<>>
    /\ scanKeys = <<>>
    /\ scanPos = 0
    /\ addedImpl = FALSE
    /\ implCalls = <<>>
    /\ passNo = 0

IdleNamer ==
    /\ sortedBindings = <<>>
    /\ namePrios = <<>>
    /\ nameCandidates = <<>>
    /\ topNames = <<>>
    /\ foundConflict = FALSE
    /\ namerI = 0
    /\ namerPc = "idle"
    /\ bindingNames = <<>>
    /\ everPeers = {}
    /\ passStart = <<>>

\* The files TryRun reads and writes: "absent", "old" (as found) or "new"
\* (written by this run).
NoFs ==
    [config |-> "absent", bindingsTxt |-> "absent", outDir |-> "absent",
     customGo |-> "absent", notGo |-> "absent", genGo |-> "absent"]

NoCfg == [DontBuildFlag |-> ""]

\* The results of parsePkgs: irData and err; multi tells whether err is a
\* *multierror.Error.
NoParse == [irData |-> <<>>, err |-> <<>>, multi |-> FALSE]

IdleRunRest ==
    /\ outFile = ""
    /\ stats = ""
    /\ err = ""
    /\ cfg = NoCfg
    /\ fs = NoFs
    /\ fs0 = NoFs
    /\ parseRes = NoParse

IdleRun == runPc = "idle" /\ warn = <<>> /\ IdleRunRest

\* return "", "", nil, e
ReturnFatal(e) ==
    /\ outFile' = ""
    /\ stats' = ""
    /\ warn' = <<>>
    /\ err' = e
    /\ runPc' = "fatal"

InitCmp ==
    /\ cmpPrefer \in PreferUniverse
    /\ cmpArgs \in PathUniverse \X PathUniverse \X PathUniverse
    /\ cmpRes = NoRes
    /\ IdleMod /\ IdleGen /\ IdleNamer /\ IdleRun

CompareStep ==
    /\ cmpRes = NoRes
    /\ cmpRes' = [done |-> TRUE,
                  ab |-> compareModulePaths(cmpPrefer, cmpArgs[1], cmpArgs[2]),
                  ba |-> compareModulePaths(cmpPrefer, cmpArgs[2], cmpArgs[1]),
                  bc |-> compareModulePaths(cmpPrefer, cmpArgs[2], cmpArgs[3]),
                  ac |-> compareModulePaths(cmpPrefer, cmpArgs[1], cmpArgs[3])]
    /\ UNCHANGED <<cmpPrefer, cmpArgs, varsMod, varsGen, varsNamer, varsRun>>

NextCmp == CompareStep

SpecCmp == InitCmp /\ [][NextCmp]_vars

\* C7: the comparator is a total order: equal only for identical paths,
\* compare(a,b) the negation of compare(b,a), and transitive.
C7_TotalOrder ==
    cmpRes.done =>
        /\ (cmpRes.ab = 0) <=> (cmpArgs[1] = cmpArgs[2])
        /\ cmpRes.ab = 0 - cmpRes.ba
        /\ (cmpRes.ab = -1 /\ cmpRes.bc = -1) => cmpRes.ac = -1

C7_Antisymmetric ==
    cmpRes.done =>
        /\ (cmpRes.ab = 0) <=> (cmpArgs[1] = cmpArgs[2])
        /\ cmpRes.ab = 0 - cmpRes.ba

(***************************************************************************)
(* Unique Module Namer: the naming block of recursivelyGetRepo.            *)
(***************************************************************************)
IsCap(c) == c \in {"C"}
IsLow(c) == c \in {"a", "b", "c", "f", "p", "q", "v", "x", "y"}
IsNum(c) == c \in Digits
ToLowerChar(c) == IF c = "C" THEN "c" ELSE c

RECURSIVE SnakeFrom(_, _)
SnakeFrom(s, i) ==
    IF i > Len(s) THEN <<>>
    ELSE
      LET v == s[i]
          caseChange ==
              /\ i < Len(s)
              /\ \/ IsCap(v) /\ (IsLow(s[i + 1]) \/ IsNum(s[i + 1]))
                 \/ IsLow(v) /\ (IsCap(s[i + 1]) \/ IsNum(s[i + 1]))
                 \/ IsNum(v) /\ (IsCap(s[i + 1]) \/ IsLow(s[i + 1]))
          before ==
              IF IsCap(v) /\ IsLow(s[i + 1]) /\ i > 1 /\ IsCap(s[i - 1])
              THEN <<"_">> ELSE <<>>
          after ==
              IF IsLow(v) \/ IsNum(v) \/ IsNum(s[i + 1])
              THEN <<"_">> ELSE <<>>
      IN  IF caseChange
          THEN before \o <<ToLowerChar(v)>> \o after \o SnakeFrom(s, i + 1)
          ELSE IF v \in {"_", "-", "."}
          THEN <<"_">> \o SnakeFrom(s, i + 1)
          ELSE <<ToLowerChar(v)>> \o SnakeFrom(s, i + 1)

\* strcase.ToSnake: lower-cases, puts "_" where the character class changes
\* and replaces "_", "-" and "." by "_".
ToSnake(s) == SnakeFrom(s, 1)

\* slices.Contains
SeqContains(seq, x) == \E i \in 1..Len(seq) : seq[i] = x

RECURSIVE InsertDown(_, _, _)
\* The inner loop of the insertion sort: element j moves down while it
\* compares less than its predecessor.
InsertDown(data, j, prefer) ==
    IF j > 1 /\ compareModulePaths(prefer, data[j], data[j - 1]) < 0
    THEN InsertDown([data EXCEPT ![j] = data[j - 1], ![j - 1] = data[j]],
                    j - 1, prefer)
    ELSE data

RECURSIVE InsertionSortFrom(_, _, _)
InsertionSortFrom(data, i, prefer) ==
    IF i > Len(data) THEN data
    ELSE InsertionSortFrom(InsertDown(data, i, prefer), i + 1, prefer)

\* slices.SortFunc(moduleNameKeys, makeCompareModulePaths(pkg)): for slices
\* of at most 12 elements the standard library sorts by insertion.
SortModulePaths(keys, prefer) == InsertionSortFrom(keys, 2, prefer)

RECURSIVE UniqueNameLoop(_, _, _)
\* The for loop of lines 241-256: [ok, name].
UniqueNameLoop(modPathElems, nameComponents, existing) ==
    IF Join(nameComponents, "_") \notin existing
    THEN [ok |-> TRUE, name |-> Join(nameComponents, "_")]
    ELSE IF Len(modPathElems) = 0
    THEN [ok |-> FALSE, name |-> <<>>]
    ELSE
      LET lastElemSnakeCase == ToSnake(modPathElems[Len(modPathElems)])
          rest == SubSeq(modPathElems, 1, Len(modPathElems) - 1)
      IN  IF SeqContains(nameComponents, lastElemSnakeCase)
          THEN UniqueNameLoop(rest, nameComponents, existing)
          ELSE UniqueNameLoop(rest, <<lastElemSnakeCase>> \o nameComponents,
                              existing)

\* The unique name of modPath given the names already taken.
UniqueNameFor(modPath, defaultName, existing) ==
    UniqueNameLoop(Split(removeModulePathVersionElements(modPath), "/"),
                   <<defaultName>>, existing)

\* The sentinel entry set before the loop: modUniqueNames["C"] = "C".
SentinelNames == (<<"C">> :> <<"C">>)

\* One iteration of the loop over moduleNameKeys, as a function of the
\* loop's state st = [pc, idx, existing, names].
\* NameOne without existingModuleNames[name] = struct{}{}.
NameOneForgetsTaken(st, keys, defaults) ==
    LET modPath == keys[st.idx]
        r == UniqueNameFor(modPath, defaults[modPath], st.existing)
    IN  IF r.ok
        THEN [pc |-> "name", idx |-> st.idx + 1, existing |-> st.existing,
              names |-> (modPath :> r.name) @@ st.names]
        ELSE [pc |-> "fatal", idx |-> st.idx, existing |-> st.existing,
              names |-> <<>>]

NameOne(st, keys, defaults) ==
    LET modPath == keys[st.idx]
        r == UniqueNameFor(modPath, defaults[modPath], st.existing)
    IN  IF r.ok
        THEN [pc |-> "name", idx |-> st.idx + 1,
              existing |-> st.existing \cup {r.name},
              names |-> (modPath :> r.name) @@ st.names]
        ELSE [pc |-> "fatal", idx |-> st.idx, existing |-> st.existing,
              names |-> <<>>]

RECURSIVE NameAll(_, _, _)
NameAll(st, keys, defaults) ==
    IF st.pc = "fatal" THEN st
    ELSE IF st.idx > Len(keys) THEN [st EXCEPT !.pc = "done"]
    ELSE NameAll(NameOne(st, keys, defaults), keys, defaults)

\* The outcome of the naming block when the map's keys are enumerated in the
\* order `order`: [pc, names].
NamingOutcome(order, prefer, defaults) ==
    LET st == NameAll([pc |-> "name", idx |-> 1, existing |-> {},
                       names |-> SentinelNames],
                      SortModulePaths(order, prefer), defaults)
    IN  [pc |-> st.pc, names |-> st.names]

\* All orders in which a set can be enumerated.
Orders(S) ==
    { o \in [1..Cardinality(S) -> S] : \A x \in S : \E i \in DOMAIN o : o[i] = x }

\* The names the "package <name>" directives may declare.
DefaultNames == { <<"p">>, <<"v", "1">>, <<"C">> }

InitMod ==
    /\ pkg \in PreferUniverse \ {<<>>}
    /\ \E keys \in SUBSET ModUniverse :
          /\ Cardinality(keys) <= MaxModules
          /\ modDefaultNames \in [keys -> DefaultNames]
    /\ moduleNameKeys = <<>>
    /\ modPc = "collect"
    /\ modIdx = 0
    /\ existingModuleNames = {}
    /\ modUniqueNames = <<>>
    /\ IdleCmp /\ IdleGen /\ IdleNamer /\ IdleRun

\* Lines 219-224: the sentinel entry, and the keys of modDefaultNames
\* collected in the map's enumeration order.
CollectKeys ==
    /\ modPc = "collect"
    /\ moduleNameKeys' \in Orders(DOMAIN modDefaultNames)
    /\ modUniqueNames' = SentinelNames
    /\ modPc' = "sort"
    /\ UNCHANGED <<pkg, modDefaultNames, modIdx, existingModuleNames, varsCmp, varsGen, varsNamer, varsRun>>

\* Lines 225-227.
SortKeys ==
    /\ modPc = "sort"
    /\ moduleNameKeys' = SortModulePaths(moduleNameKeys, pkg)
    /\ existingModuleNames' = {}
    /\ modIdx' = 1
    /\ modPc' = "name"
    /\ UNCHANGED <<pkg, modDefaultNames, modUniqueNames, varsCmp, varsGen, varsNamer, varsRun>>

\* Lines 228-260: one module is named, or the run fails.
NameModule ==
    /\ modPc = "name"
    /\ modIdx <= Len(moduleNameKeys)
    /\ LET st == NameOne([pc |-> modPc, idx |-> modIdx,
                          existing |-> existingModuleNames,
                          names |-> modUniqueNames],
                         moduleNameKeys, modDefaultNames)
       IN  /\ modPc' = st.pc
           /\ modIdx' = st.idx
           /\ existingModuleNames' = st.existing
           /\ modUniqueNames' = st.names
    /\ UNCHANGED <<pkg, modDefaultNames, moduleNameKeys, varsCmp, varsGen, varsNamer, varsRun>>

\* Line 263.
ReturnNames ==
    /\ modPc = "name"
    /\ modIdx > Len(moduleNameKeys)
    /\ modPc' = "done"
    /\ UNCHANGED <<pkg, modDefaultNames, moduleNameKeys, modIdx,
                   existingModuleNames, modUniqueNames, varsCmp, varsGen, varsNamer, varsRun>>

NextMod == CollectKeys \/ SortKeys \/ NameModule \/ ReturnNames

SpecMod == InitMod /\ [][NextMod]_vars

\* The module paths named so far.
NamedPaths == { moduleNameKeys[i] : i \in 1..(modIdx - 1) }

\* C1: no two distinct module paths get the same unique name, and a module's
\* name was not taken before it was assigned and is taken afterwards.
C1_NamesInjective ==
    /\ [](modPc \in {"name", "done"} =>
            \A a, b \in NamedPaths :
                modUniqueNames[a] = modUniqueNames[b] => a = b)
    /\ [][(modPc = "name" /\ modPc' = "name" /\ modIdx' = modIdx + 1) =>
            /\ modUniqueNames'[moduleNameKeys[modIdx]] \notin existingModuleNames
            /\ modUniqueNames'[moduleNameKeys[modIdx]] \in existingModuleNames'
         ]_vars

\* Two modules with the same declared name have both been named.
C1_Witness ==
    /\ modPc = "done"
    /\ \E a, b \in NamedPaths :
          /\ a # b
          /\ modDefaultNames[a] = modDefaultNames[b]
          /\ modUniqueNames[a] # modUniqueNames[b]

RECURSIVE CandidateNames(_, _)
\* The candidate names of a module: the components joined by "_", then the
\* same with the snake-cased last remaining segment put in front, unless
\* it is a component already.
CandidateNames(elems, comps) ==
    IF Len(elems) = 0 THEN <<Join(comps, "_")>>
    ELSE LET seg == ToSnake(elems[Len(elems)])
             rest == SubSeq(elems, 1, Len(elems) - 1)
         IN  <<Join(comps, "_")>> \o
             CandidateNames(rest, IF SeqContains(comps, seg) THEN comps
                                  ELSE <<seg>> \o comps)

\* The candidate names of the i-th sorted key and the names taken before it.
CandidatesOfKey(i) ==
    CandidateNames(
        Split(removeModulePathVersionElements(moduleNameKeys[i]), "/"),
        <<modDefaultNames[moduleNameKeys[i]]>>)

TakenBefore(i) == { modUniqueNames[moduleNameKeys[j]] : j \in 1..(i - 1) }

\* The name of the i-th sorted key is the first candidate not taken before.
FirstUntaken(i) ==
    LET cands == CandidatesOfKey(i)
    IN  \E k \in 1..Len(cands) :
            /\ modUniqueNames[moduleNameKeys[i]] = cands[k]
            /\ cands[k] \notin TakenBefore(i)
            /\ \A j \in 1..(k - 1) : cands[j] \in TakenBefore(i)

\* The "_"-separated components of a name.
NameParts(name) == Split(name, "_")

\* C12: a module's name is the first untaken candidate of its sequence; it
\* contains no version marker and no repeated component; when every
\* candidate of a module is taken the run fails and returns no names.
C12_CandidateSequence ==
    /\ modPc \in {"name", "done"} =>
          \A i \in 1..(modIdx - 1) :
              /\ FirstUntaken(i)
              /\ LET parts == NameParts(modUniqueNames[moduleNameKeys[i]])
                 IN  /\ \A k \in 1..Len(parts) : IsNoVersion(parts[k])
                     /\ \A k, l \in 1..Len(parts) :
                            parts[k] = parts[l] => k = l
    /\ modPc = "fatal" =>
          /\ modUniqueNames = <<>>
          /\ \A k \in 1..Len(CandidatesOfKey(modIdx)) :
                CandidatesOfKey(modIdx)[k] \in existingModuleNames

\* The parts of C12 about the candidate sequence and the failure.
FirstUntakenOrFatal ==
    /\ modPc \in {"name", "done"} =>
          \A i \in 1..(modIdx - 1) : FirstUntaken(i)
    /\ modPc = "fatal" =>
          /\ modUniqueNames = <<>>
          /\ \A k \in 1..Len(CandidatesOfKey(modIdx)) :
                CandidatesOfKey(modIdx)[k] \in existingModuleNames

\* C13: no real module is given the sentinel's unique name "C", and the
\* name map with the sentinel entry is injective.
C13_SentinelReserved ==
    modPc \in {"name", "done"} =>
        /\ \A m \in NamedPaths : modUniqueNames[m] # SentinelNames[<<"C">>]
        /\ \A a, b \in DOMAIN modUniqueNames :
              modUniqueNames[a] = modUniqueNames[b] => a = b

\* C8: the outcome of the naming block does not depend on the order in which
\* the keys of the module-name map are enumerated.
C8_Deterministic ==
    modPc \in {"done", "fatal"} =>
        \A o \in Orders(DOMAIN modDefaultNames) :
            NamingOutcome(o, pkg, modDefaultNames)
                = [pc |-> modPc, names |-> modUniqueNames]

(***************************************************************************)
(* Binding Pipeline and Generic-Implementation Closure: genBindings.       *)
(***************************************************************************)
\* The keys of deps.GenericInterfaceImpls; sortedMapAll visits them in
\* increasing order.
GenericKeys == 1..MaxKeys

\* The import paths a synthesizer call may add to deps.Imports.
ImportUniverse == { Path(<<segF>>) }

\* The symbol table ctx.IR: an interface with one method, a function, a
\* struct with one field and a value.  A symbol is bound when it is not
\* internal and its package is a target package; the function is named like
\* the struct's constructor or otherwise.
Bound == [internal |-> FALSE, inTarget |-> TRUE]
Internal == [internal |-> TRUE, inTarget |-> TRUE]
NonTarget == [internal |-> FALSE, inTarget |-> FALSE]

IRUniverse ==
    { [Interfaces |-> <<[name |-> "I", flags |-> fi, Funcs |-> <<"I.m">>]>>,
       Funcs |-> <<[name |-> fname, flags |-> ff]>>,
       Structs |-> <<[name |-> "S", flags |-> fst, Fields |-> <<"x">>]>>,
       Values |-> <<[name |-> "v", flags |-> fv]>>] :
        fi \in {Bound, Internal}, ff \in {Bound, Internal, NonTarget},
        fst \in {Bound, Internal, NonTarget}, fv \in {Bound, NonTarget},
        fname \in {"NewS", "g"} }

\* The two `continue` tests at the head of each loop body.
Skipped(sym) == sym.flags.internal \/ ~sym.flags.inTarget

SkipItem(cat, sym) ==
    <<[cat |-> cat, skip |-> TRUE, diag |-> sym.name, key |-> sym.name]>>

\* Lines 377-384: one synthesizer call per interface method.
IfaceItems(iface) ==
    IF Skipped(iface) THEN SkipItem("iface", iface)
    ELSE [i \in 1..Len(iface.Funcs) |->
            [cat |-> "iface", skip |-> FALSE, diag |-> iface.Funcs[i],
             key |-> iface.Funcs[i]]]

\* Lines 387-400.
FuncItems(fn) ==
    IF Skipped(fn) THEN SkipItem("func", fn)
    ELSE <<[cat |-> "func", skip |-> FALSE, diag |-> fn.name,
            key |-> fn.name]>>

\* Lines 410-423: the getter, then the setter of one field.
AccessorItems(struc, f) ==
    <<[cat |-> "field", skip |-> FALSE, diag |-> struc.name \o "//" \o f \o "?",
       key |-> struc.name \o "//" \o f \o "?"],
      [cat |-> "field", skip |-> FALSE, diag |-> struc.name \o "//" \o f \o "!",
       key |-> struc.name \o "//" \o f \o "!"]>>

RECURSIVE FieldItemsFrom(_, _)
FieldItemsFrom(struc, i) ==
    IF i > Len(struc.Fields) THEN <<>>
    ELSE AccessorItems(struc, struc.Fields[i]) \o FieldItemsFrom(struc, i + 1)

\* Lines 402-425.
FieldItems(struc) ==
    IF Skipped(struc) THEN SkipItem("field", struc)
    ELSE FieldItemsFrom(struc, 1)

\* Lines 427-441.
ValueItems(value) ==
    IF Skipped(value) THEN SkipItem("value", value)
    ELSE <<[cat |-> "value", skip |-> FALSE, diag |-> value.name,
            key |-> value.name]>>

\* Lines 443-462: the constructor's unique key is that of a function named
\* New<struct>.
CtorItems(struc) ==
    IF Skipped(struc) THEN SkipItem("ctor", struc)
    ELSE <<[cat |-> "ctor", skip |-> FALSE, diag |-> struc.name,
            key |-> "New" \o struc.name]>>

RECURSIVE FlatMap(_, _, _)
FlatMap(F(_), syms, i) ==
    IF i > Len(syms) THEN <<>> ELSE F(syms[i]) \o FlatMap(F, syms, i + 1)

\* The loop bodies of genBindings in the order the five loops run them.
Items(ir) ==
    FlatMap(IfaceItems, ir.Interfaces, 1) \o FlatMap(FuncItems, ir.Funcs, 1)
    \o FlatMap(FieldItems, ir.Structs, 1) \o FlatMap(ValueItems, ir.Values, 1)
    \o FlatMap(CtorItems, ir.Structs, 1)

\* slices.ContainsFunc(bindings, same unique name)
HasBinding(bs, key) == \E i \in 1..Len(bs) : bs[i].key = key

\* What one loop body does to bindings once the synthesizer returned.
AfterSynth(bs, it, ok) ==
    IF ~ok THEN bs
    ELSE IF it.cat = "ctor" /\ HasBinding(bs, it.key) THEN bs
    ELSE Append(bs, [key |-> it.key, cat |-> it.cat])

\* A loop body that keeps only the last diagnostic.
AfterSynthErrOverwrite(errs, it, ok) == IF ok THEN errs ELSE <<it.diag>>

\* What one loop body does to resErr once the synthesizer returned.
AfterSynthErr(errs, it, ok) == IF ok THEN errs ELSE Append(errs, it.diag)

\* The synthesizer may add to the shared Dependencies, whatever it returns.
AddDeps(d, imps, keys) ==
    [Imports |-> d.Imports \cup imps,
     GenericInterfaceImpls |-> d.GenericInterfaceImpls \cup keys]

\* A symbol table with a single function.
SmallIR ==
    [Interfaces |-> <<>>,
     Funcs |-> <<[name |-> "g", flags |-> Bound]>>,
     Structs |-> <<>>,
     Values |-> <<>>]

InitGenOn(irs) ==
    /\ genIR \in irs
    /\ genPc = "bind"
    /\ genPos = 1
    /\ bindings = <<>>
    /\ resErr = <<>>
    /\ deps = NoDeps
    /\ synthLog = <<>>
    /\ genericIfaceImpls = <<>>
    /\ scanKeys = <<>>
    /\ scanPos = 0
    /\ addedImpl = FALSE
    /\ implCalls = [k \in GenericKeys |-> <<>>]
    /\ passNo = 0
    /\ runPc = "genBindings"
    /\ warn = <<>>
    /\ IdleRunRest
    /\ IdleCmp /\ IdleMod /\ IdleNamer

InitGen == InitGenOn(IRUniverse)

InitClosure == InitGenOn({SmallIR})

\* A symbol that is internal or outside the target packages: `continue`.
SkipSymbol ==
    /\ genPc = "bind"
    /\ genPos <= Len(Items(genIR))
    /\ Items(genIR)[genPos].skip
    /\ genPos' = genPos + 1
    /\ synthLog' = Append(synthLog, "skipped")
    /\ UNCHANGED <<genIR, genPc, bindings, resErr, deps, genericIfaceImpls,
                   scanKeys, scanPos, addedImpl, implCalls, passNo>>

\* One loop body of category cat: the synthesizer is called and returns a
\* binding or an error.
Synthesize(cat) ==
    /\ genPc = "bind"
    /\ genPos <= Len(Items(genIR))
    /\ ~Items(genIR)[genPos].skip
    /\ Items(genIR)[genPos].cat = cat
    /\ \E ok \in BOOLEAN, imps \in SUBSET ImportUniverse,
          keys \in SUBSET GenericKeys :
          /\ deps' = AddDeps(deps, imps, keys)
          /\ bindings' = AfterSynth(bindings, Items(genIR)[genPos], ok)
          /\ resErr' = AfterSynthErr(resErr, Items(genIR)[genPos], ok)
          /\ synthLog' = Append(synthLog, IF ok THEN "ok" ELSE "err")
    /\ genPos' = genPos + 1
    /\ UNCHANGED <<genIR, genPc, genericIfaceImpls, scanKeys, scanPos,
                   addedImpl, implCalls, passNo>>

GenerateIfaceFunc == Synthesize("iface") /\ UNCHANGED <<varsCmp, varsMod, varsNamer, varsRun>>
GenerateFunc == Synthesize("func") /\ UNCHANGED <<varsCmp, varsMod, varsNamer, varsRun>>
GenerateGetterOrSetter == Synthesize("field") /\ UNCHANGED <<varsCmp, varsMod, varsNamer, varsRun>>
GenerateValue == Synthesize("value") /\ UNCHANGED <<varsCmp, varsMod, varsNamer, varsRun>>
GenerateNewStruct == Synthesize("ctor") /\ UNCHANGED <<varsCmp, varsMod, varsNamer, varsRun>>
SkipOne == SkipSymbol /\ UNCHANGED <<varsCmp, varsMod, varsNamer, varsRun>>

RECURSIVE SortedSeq(_)
\* The keys of a set in increasing order (sortedMapAll).
SortedSeq(S) ==
    IF S = {} THEN <<>>
    ELSE LET m == CHOOSE x \in S : \A y \in S : x <= y
         IN  <<m>> \o SortedSeq(S \ {m})

\* Lines 464-469: the result map is made once; every pass starts with
\* addedImpl false and a sorted snapshot of the request keys.
StartPass ==
    /\ \/ genPc = "bind" /\ genPos > Len(Items(genIR))
          /\ genericIfaceImpls' = <<>>
       \/ genPc = "again" /\ UNCHANGED genericIfaceImpls
    /\ addedImpl' = FALSE
    /\ scanKeys' = SortedSeq(deps.GenericInterfaceImpls)
    /\ scanPos' = 1
    /\ passNo' = passNo + 1
    /\ genPc' = "scan"
    /\ UNCHANGED <<genIR, genPos, bindings, resErr, deps, synthLog, implCalls,
                   varsCmp, varsMod, varsNamer, varsRun>>

\* A loop body that never passes over a key.
NeverImplemented(impls, name) == FALSE

\* Whether the loop body skips this key (line 470).
AlreadyImplemented(impls, name) == name \in DOMAIN impls

\* Lines 470-472: a key that already has an implementation is passed over.
VisitImplemented ==
    /\ genPc = "scan"
    /\ scanPos <= Len(scanKeys)
    /\ AlreadyImplemented(genericIfaceImpls, scanKeys[scanPos])
    /\ scanPos' = scanPos + 1
    /\ UNCHANGED <<genIR, genPc, genPos, bindings, resErr, deps, synthLog,
                   genericIfaceImpls, scanKeys, addedImpl, implCalls, passNo,
                   varsCmp, varsMod, varsNamer, varsRun>>

\* Lines 473-479: the synthesizer is called for a pending key; it may
\* request further keys, and it returns an implementation or an error.
VisitPending ==
    /\ genPc = "scan"
    /\ scanPos <= Len(scanKeys)
    /\ ~AlreadyImplemented(genericIfaceImpls, scanKeys[scanPos])
    /\ implCalls' = [implCalls EXCEPT ![scanKeys[scanPos]] = Append(@, passNo)]
    /\ \E ok \in BOOLEAN, imps \in SUBSET ImportUniverse,
          keys \in SUBSET GenericKeys :
          IF ok
          THEN /\ deps' = AddDeps(deps, imps, keys)
               /\ addedImpl' = TRUE
               /\ genericIfaceImpls' =
                      (scanKeys[scanPos] :> scanKeys[scanPos]) @@ genericIfaceImpls
               /\ scanPos' = scanPos + 1
               /\ UNCHANGED <<genPc, bindings>>
          ELSE \* return nil, nil, nil, err
               /\ deps' = NoDeps
               /\ genPc' = "fatal"
               /\ bindings' = <<>>
               /\ genericIfaceImpls' = <<>>
               /\ UNCHANGED <<addedImpl, scanPos>>
    /\ UNCHANGED <<genIR, genPos, resErr, synthLog, scanKeys, passNo,
                   varsCmp, varsMod, varsNamer, varsRun>>

\* The loop left after a pass that added an implementation.
LeavesLoopInverted(added) == added

\* Whether the loop is left at the end of a pass (lines 481-483).
LeavesLoop(added) == ~added

\* Lines 481-487: the end of a pass.
EndPass ==
    /\ genPc = "scan"
    /\ scanPos > Len(scanKeys)
    /\ genPc' = IF LeavesLoop(addedImpl) THEN "ret" ELSE "again"
    /\ UNCHANGED <<genIR, genPos, bindings, resErr, deps, synthLog,
                   genericIfaceImpls, scanKeys, scanPos, addedImpl, implCalls,
                   passNo, varsCmp, varsMod, varsNamer, varsRun>>

\* TryRun, lines 546-553: diagnostics become warnings; any other error is
\* fatal.
HandleGenBindings ==
    /\ runPc = "genBindings"
    /\ \/ /\ genPc = "ret"
          /\ warn' = warn \o resErr
          /\ runPc' = "bindingList"
          /\ UNCHANGED <<outFile, stats, err>>
       \/ /\ genPc = "fatal"
          /\ ReturnFatal("generate bindings")
    /\ UNCHANGED <<cfg, fs, fs0, parseRes, varsGen, varsCmp, varsMod,
                   varsNamer>>

NextGen ==
    \/ SkipOne
    \/ GenerateIfaceFunc
    \/ GenerateFunc
    \/ GenerateGetterOrSetter
    \/ GenerateValue
    \/ GenerateNewStruct
    \/ StartPass
    \/ VisitImplemented
    \/ VisitPending
    \/ EndPass
    \/ HandleGenBindings

SpecGen == InitGen /\ [][NextGen]_vars

\* genBindings on a symbol table with a single function; the run keeps
\* taking steps until genBindings has returned.
NextClosure ==
    \/ GenerateFunc
    \/ StartPass
    \/ VisitImplemented
    \/ VisitPending
    \/ EndPass
    \/ HandleGenBindings

SpecClosure == InitClosure /\ [][NextClosure]_vars /\ WF_vars(NextClosure)

\* The indices of the loop bodies whose synthesizer call returned `what`.
LoggedAs(what) == { i \in 1..Len(synthLog) : synthLog[i] = what }

RECURSIVE DiagsFrom(_, _, _)
\* The diagnostics of the failed synthesizer calls, in call order.
DiagsFrom(items, log, i) ==
    IF i > Len(log) THEN <<>>
    ELSE IF log[i] = "err" THEN <<items[i].diag>> \o DiagsFrom(items, log, i + 1)
    ELSE DiagsFrom(items, log, i + 1)

\* A constructor whose unique key is that of a function that was bound.
SuppressedCtor(items, i) ==
    /\ items[i].cat = "ctor"
    /\ \E j \in LoggedAs("ok") :
          items[j].cat # "ctor" /\ items[j].key = items[i].key

\* C3: the five loops never stop early; every symbol whose synthesis
\* succeeded has its binding in the returned list, every failed synthesis has
\* exactly one diagnostic naming its symbol, and TryRun moves the diagnostics
\* to the warnings and goes on.
C3_PartialFailure ==
    LET items == Items(genIR)
    IN  /\ genPc \in {"scan", "again", "ret"} =>
              /\ Len(synthLog) = Len(items)
              /\ \A i \in LoggedAs("ok") :
                    Cardinality({ j \in 1..Len(bindings) :
                                    bindings[j].key = items[i].key }) = 1
              /\ Len(bindings) =
                    Cardinality({ i \in LoggedAs("ok") : ~SuppressedCtor(items, i) })
              /\ resErr = DiagsFrom(items, synthLog, 1)
              /\ Len(resErr) = Cardinality(LoggedAs("err"))
        /\ (genPc = "ret" /\ runPc # "genBindings") =>
              /\ runPc = "bindingList"
              /\ warn = DiagsFrom(items, synthLog, 1)

\* TryRun goes on after a run of genBindings in which one synthesis failed
\* and another, later one succeeded.
C3_Witness ==
    /\ runPc = "bindingList"
    /\ \E i \in LoggedAs("err"), j \in LoggedAs("ok") : i < j
    /\ Len(warn) >= 1
    /\ Len(bindings) >= 1

\* C4: the synthesizer is called at most once per request key, and when the
\* loop is left without error the keys of the result map are the request
\* keys.
C4_ClosureOnce ==
    /\ \A k \in GenericKeys : Len(implCalls[k]) <= 1
    /\ genPc = "ret" =>
          DOMAIN genericIfaceImpls = deps.GenericInterfaceImpls

\* The loop is left after two passes that each resolved a key: the second
\* pass resolved a key requested during the first.
C4_Witness ==
    /\ genPc = "ret"
    /\ passNo >= 3
    /\ Cardinality(DOMAIN genericIfaceImpls) >= 2

\* Some key was synthesized in pass n.
ResolvedInPass(n) ==
    \E k \in GenericKeys : \E i \in 1..Len(implCalls[k]) : implCalls[k][i] = n

\* C5: without a failing synthesis the closure loop is eventually left, and
\* it is left exactly at the end of a pass that resolved no key.
C5_ClosureTerminates ==
    /\ <>(genPc = "ret" \/ genPc = "fatal")
    /\ [][(genPc = "scan" /\ scanPos > Len(scanKeys)) =>
            ((genPc' = "ret") <=> ~ResolvedInPass(passNo))]_vars

\* The loop has been left although a key requested another during the
\* closure.
C5_Witness ==
    /\ genPc = "ret"
    /\ passNo >= 3

(***************************************************************************)
(* Binding Namer: the conflict-resolution loop of TryRun.                  *)
(***************************************************************************)
\* math.MaxInt, the priority of a package that cfg.NoPrefix does not list.
\* Only < is applied to it; the value stands for Go's 1<<63 - 1.
MathMaxInt == 2147483647

\* cfg.NoPrefix, in descending priority.
NoPrefix == <<"m0", "m1">>

\* The packages a binding may come from.
BindingModules == {"m0", "m1", "m2"}

\* Lines 819-823: slices.Index(cfg.NoPrefix, modulePath), or math.MaxInt.
NamePrio(modulePath) ==
    IF \E k \in 1..Len(NoPrefix) : NoPrefix[k] = modulePath
    THEN (CHOOSE k \in 1..Len(NoPrefix) :
            /\ NoPrefix[k] = modulePath
            /\ \A j \in 1..(k - 1) : NoPrefix[j] # modulePath) - 1
    ELSE MathMaxInt

nameX == <<"x">>
nameY == <<"y">>
nameX1 == <<"x", "-", "1">>

\* The candidate lists RyeifiedNameCandidates may return for a binding.
CandidateLists ==
    { <<>>, <<nameX>>, <<nameX, nameY>>, <<nameY>>, <<nameX1>> }

BindingUniverse == [mod : BindingModules, cands : CandidateLists]

\* The state of the loop: st = [cands, top, found, i, pc, warn].
\* Line 839-841: binding i loses to the holder of the name and is popped.
PopSelf(st, i, otherI, topName) ==
    [st EXCEPT !.cands[i] = Tail(st.cands[i]),
               !.top = (topName :> otherI) @@ st.top,
               !.found = TRUE]

\* PopOther with the loser and the winner exchanged.
PopOtherPopsSelf(st, i, otherI, topName) == PopSelf(st, i, otherI, topName)

\* Lines 843-845: the holder of the name loses to binding i and is popped.
PopOther(st, i, otherI, topName) ==
    [st EXCEPT !.cands[otherI] = Tail(st.cands[otherI]),
               !.top = (topName :> i) @@ st.top,
               !.found = TRUE]

\* A tie resolved by discarding the top candidate of binding i.
RenamePopsInstead(st, i, otherI, topName) == PopSelf(st, i, otherI, topName)

\* Rename without foundConflict = true.
RenameNoFlag(st, i, otherI, topName) ==
    [st EXCEPT !.cands[i][1] = topName \o <<"-", "1">>,
               !.top = ((topName \o <<"-", "1">>) :> i) @@ st.top]

\* Lines 847-858: equal priorities: a warning, and "-1" is appended to the
\* top candidate of binding i, which is entered under its new name.
Rename(st, i, otherI, topName) ==
    [st EXCEPT !.warn = Append(st.warn,
                          [kind |-> "naming conflict", a |-> i, b |-> otherI,
                           from |-> topName, to |-> topName \o <<"-", "1">>]),
               !.cands[i][1] = topName \o <<"-", "1">>,
               !.top = ((topName \o <<"-", "1">>) :> i) @@ st.top,
               !.found = TRUE]

\* Line 861.
Register(st, i, topName) == [st EXCEPT !.top = (topName :> i) @@ st.top]

\* Which branch the body of the loop over sortedBindings takes.
Branch(st, prios) ==
    IF Len(st.cands[st.i]) = 0 THEN "exhausted"
    ELSE IF st.cands[st.i][1] \notin DOMAIN st.top THEN "register"
    ELSE IF prios[st.top[st.cands[st.i][1]]] < prios[st.i] THEN "popSelf"
    ELSE IF prios[st.i] < prios[st.top[st.cands[st.i][1]]] THEN "popOther"
    ELSE "rename"

\* The pairs of bindings whose current top names are the same.
PeerPairs(cands) ==
    { <<b, j>> \in (DOMAIN cands) \X (DOMAIN cands) :
        /\ b # j
        /\ Len(cands[b]) > 0
        /\ Len(cands[j]) > 0
        /\ cands[b][1] = cands[j][1] }

\* Lines 832-863: one iteration of the loop over sortedBindings.
NamerIter(st, prios) ==
    LET i == st.i
        br == Branch(st, prios)
    IN  IF br = "exhausted"
        THEN [st EXCEPT !.pc = "fatal", !.warn = <<>>]
        ELSE
          LET topName == st.cands[i][1]
              next == IF br = "register" THEN Register(st, i, topName)
                      ELSE IF br = "popSelf"
                      THEN PopSelf(st, i, st.top[topName], topName)
                      ELSE IF br = "popOther"
                      THEN PopOther(st, i, st.top[topName], topName)
                      ELSE Rename(st, i, st.top[topName], topName)
          IN  [next EXCEPT !.i = i + 1]

\* The end of a pass with foundConflict declared outside the loop.
NamerEndPassKeepsFlag(st) ==
    IF ~st.found THEN [st EXCEPT !.pc = "done"]
    ELSE [st EXCEPT !.top = <<>>, !.i = 1]

\* Lines 864-871: the end of a pass.
NamerEndPass(st) ==
    IF ~st.found THEN [st EXCEPT !.pc = "done"]
    ELSE [st EXCEPT !.found = FALSE, !.top = <<>>, !.i = 1]

NamerState ==
    [cands |-> nameCandidates, top |-> topNames, found |-> foundConflict,
     i |-> namerI, pc |-> namerPc, warn |-> warn]

SetNamerState(st) ==
    /\ nameCandidates' = st.cands
    /\ topNames' = st.top
    /\ foundConflict' = st.found
    /\ namerI' = st.i
    /\ namerPc' = st.pc
    /\ warn' = st.warn
    /\ everPeers' = everPeers \cup PeerPairs(st.cands)

\* Lines 811-831: priorities and candidate lists of the sorted bindings, and
\* the start of the first pass.
Prios(binds) == [i \in 1..Len(binds) |-> NamePrio(binds[i].mod)]

Candidates(binds) == [i \in 1..Len(binds) |-> binds[i].cands]

NamerStartOn(binds) ==
    /\ sortedBindings = binds
    /\ namePrios = Prios(binds)
    /\ nameCandidates = Candidates(binds)
    /\ topNames = <<>>
    /\ foundConflict = FALSE
    /\ namerI = 1
    /\ namerPc = "loop"
    /\ bindingNames = <<>>
    /\ everPeers = PeerPairs(nameCandidates)
    /\ passStart = nameCandidates

InitNamer ==
    /\ \E n \in 1..MaxBindings :
          \E binds \in [1..n -> BindingUniverse] : NamerStartOn(binds)
    /\ runPc = "naming"
    /\ warn = <<>>
    /\ IdleRunRest
    /\ IdleCmp /\ IdleMod /\ IdleGen

NamerIterate(br) ==
    /\ namerPc = "loop"
    /\ namerI <= Len(sortedBindings)
    /\ Branch(NamerState, namePrios) = br
    /\ SetNamerState(NamerIter(NamerState, namePrios))
    /\ UNCHANGED <<sortedBindings, namePrios, bindingNames, passStart>>

NamerExhausted ==
    /\ NamerIterate("exhausted")
    /\ ReturnFatal("unable to resolve naming conflict")
    /\ UNCHANGED <<cfg, fs, fs0, parseRes, varsCmp, varsMod, varsGen>>

NamerRegister ==
    NamerIterate("register") /\ UNCHANGED <<runPc, runRest, varsCmp, varsMod, varsGen>>

NamerPopSelf ==
    NamerIterate("popSelf") /\ UNCHANGED <<runPc, runRest, varsCmp, varsMod, varsGen>>

NamerPopOther ==
    NamerIterate("popOther") /\ UNCHANGED <<runPc, runRest, varsCmp, varsMod, varsGen>>

NamerRename ==
    NamerIterate("rename") /\ UNCHANGED <<runPc, runRest, varsCmp, varsMod, varsGen>>

\* Lines 864-872: a pass without conflict ends the loop and fixes the
\* display names; any other pass is followed by a new one.
NamerPassEnd ==
    /\ namerPc = "loop"
    /\ namerI > Len(sortedBindings)
    /\ SetNamerState(NamerEndPass(NamerState))
    /\ passStart' = nameCandidates
    /\ bindingNames' =
          IF ~foundConflict
          THEN [i \in 1..Len(sortedBindings) |-> nameCandidates[i][1]]
          ELSE bindingNames
    /\ runPc' = IF ~foundConflict THEN "emit" ELSE runPc
    /\ UNCHANGED <<sortedBindings, namePrios, runRest, varsCmp, varsMod,
                   varsGen>>

NextNamer ==
    \/ NamerExhausted
    \/ NamerRegister
    \/ NamerPopSelf
    \/ NamerPopOther
    \/ NamerRename
    \/ NamerPassEnd

SpecNamer == InitNamer /\ [][NextNamer]_vars

\* C2: when the loop ends without the exhaustion error, the display names
\* are pairwise distinct.
C2_NamesDistinct ==
    namerPc = "done" =>
        /\ Len(bindingNames) = Len(sortedBindings)
        /\ \A i, j \in 1..Len(bindingNames) :
              bindingNames[i] = bindingNames[j] => i = j

\* The loop ended after a binding was renamed with "-1" and another popped.
C2_Witness ==
    /\ namerPc = "done"
    /\ Len(warn) >= 1
    /\ \E i \in 1..Len(sortedBindings) :
          Len(nameCandidates[i]) < Len(sortedBindings[i].cands)

\* The bindings other than b whose current top name is b's.
Peers(b) ==
    { j \in 1..Len(sortedBindings) :
        /\ j # b
        /\ Len(nameCandidates[j]) > 0
        /\ Len(nameCandidates[b]) > 0
        /\ nameCandidates[j][1] = nameCandidates[b][1] }

\* C6: a binding is popped or renamed only in a step before which another
\* binding with the same top name has a priority value that is not higher;
\* so a binding whose priority value is strictly lower than that of every
\* binding that ever holds its top name keeps its first-choice name.
C6_PriorityKeepsName ==
    /\ [](\A b \in 1..Len(sortedBindings) :
            (\A p \in everPeers : p[1] = b => namePrios[b] < namePrios[p[2]])
                => /\ nameCandidates[b] = sortedBindings[b].cands
                   /\ namerPc = "done" =>
                          bindingNames[b] = sortedBindings[b].cands[1])
    /\ [][\A b \in 1..Len(sortedBindings) :
            nameCandidates'[b] # nameCandidates[b] =>
                \E j \in Peers(b) : namePrios[j] <= namePrios[b]]_vars

\* The loop ended with a binding that kept its first choice although
\* another binding held the same name and lost it.
C6_Witness ==
    /\ namerPc = "done"
    /\ \E b, j \in 1..Len(sortedBindings) :
          /\ b > j
          /\ namePrios[b] < namePrios[j]
          /\ sortedBindings[b].cands # <<>>
          /\ sortedBindings[j].cands # <<>>
          /\ sortedBindings[j].cands[1] = sortedBindings[b].cands[1]
          /\ bindingNames[b] = sortedBindings[b].cands[1]
          /\ bindingNames[j] # sortedBindings[j].cands[1]

(***************************************************************************)
(* TryRun: the stages of one run and the files it touches.                 *)
(***************************************************************************)
\* The file system a run may find: nothing, a config only, or the files of
\* an earlier run, with or without generated.not.go.
FsUniverse ==
    { NoFs,
      [NoFs EXCEPT !.config = "old"] }
    \cup
    { [config |-> "old", bindingsTxt |-> "old", outDir |-> "old",
       customGo |-> "old", notGo |-> n, genGo |-> "old"] :
          n \in {"absent", "old"} }

CfgUniverse == { [DontBuildFlag |-> f] : f \in {"", "flag"} }

\* A symbol table with a function and a value.
TwoIR ==
    [Interfaces |-> <<>>,
     Funcs |-> <<[name |-> "g", flags |-> Bound]>>,
     Structs |-> <<>>,
     Values |-> <<[name |-> "v", flags |-> Bound]>>]

\* What ir.Parse may return: a table, a partial table with a
\* *multierror.Error, or another error.
IrParseOutcomes ==
    { [irData |-> TwoIR, err |-> <<>>, multi |-> FALSE],
      [irData |-> SmallIR, err |-> <<"diag">>, multi |-> TRUE],
      [irData |-> <<>>, err |-> <<"parse">>, multi |-> FALSE] }

\* parsePkgs, lines 308-354: dirOk tells whether every package directory
\* was known and parsed; irParse is what ir.Parse returned.
parsePkgs(dirOk, irParse) ==
    IF ~dirOk THEN [irData |-> <<>>, err |-> <<"unknown package">>,
                    multi |-> FALSE]
    ELSE IF irParse.err # <<>>
    THEN IF irParse.multi
         THEN [irData |-> irParse.irData, err |-> <<>> \o irParse.err,
               multi |-> TRUE]
         ELSE [irData |-> <<>>, err |-> irParse.err, multi |-> FALSE]
    ELSE [irData |-> irParse.irData, err |-> <<>>, multi |-> FALSE]

\* The bindings' packages and candidate lists in a whole run.
RunBindingUniverse ==
    [mod : {"m0", "m2"}, cands : {<<nameX>>, <<nameX, nameY>>}]

\* A write that failed left the file as it was or wrote it.
AfterFailedWrite(f) == { fs, [fs EXCEPT ![f] = "new"] }

InitRun ==
    /\ runPc = "config"
    /\ warn = <<>>
    /\ outFile = ""
    /\ stats = ""
    /\ err = ""
    /\ cfg = NoCfg
    /\ fs \in FsUniverse
    /\ fs0 = fs
    /\ parseRes = NoParse
    /\ IdleCmp /\ IdleMod /\ IdleGen /\ IdleNamer

\* Lines 498-510 and ReadConfigFromFileOrCreateDefault.
ReadConfig ==
    /\ runPc = "config"
    /\ IF fs.config = "absent"
       THEN \/ /\ fs' \in AfterFailedWrite("config")
               /\ ReturnFatal("open config")
               /\ UNCHANGED cfg
            \/ /\ fs' = [fs EXCEPT !.config = "new"]
               /\ \/ ReturnFatal("open config")
                  \/ /\ warn' = <<"created default config">>
                     /\ runPc' = "returned"
                     /\ UNCHANGED <<outFile, stats, err>>
               /\ UNCHANGED cfg
       ELSE \/ /\ ReturnFatal("open config")
               /\ UNCHANGED <<cfg, fs>>
            \/ /\ cfg' \in CfgUniverse
               /\ runPc' = "getRepo"
               /\ UNCHANGED <<warn, outFile, stats, err, fs>>
    /\ UNCHANGED <<fs0, parseRes, varsCmp, varsMod, varsGen, varsNamer>>

\* Lines 514-524: recursivelyGetRepo returns the module names or an error.
GetRepo ==
    /\ runPc = "getRepo"
    /\ \/ ReturnFatal("get repo")
       \/ runPc' = "parsePkgs" /\ UNCHANGED <<warn, outFile, stats, err>>
    /\ UNCHANGED <<cfg, fs, fs0, parseRes, varsCmp, varsMod, varsGen,
                   varsNamer>>

\* Lines 529-539: any error of parsePkgs ends the run.
ParsePkgs ==
    /\ runPc = "parsePkgs"
    /\ \E dirOk \in BOOLEAN, irParse \in IrParseOutcomes :
          /\ parseRes' = parsePkgs(dirOk, irParse)
          /\ IF parseRes'.err # <<>>
             THEN ReturnFatal("parse packages")
             ELSE /\ runPc' = "callGenBindings"
                  /\ UNCHANGED <<warn, outFile, stats, err>>
    /\ UNCHANGED <<cfg, fs, fs0, varsCmp, varsMod, varsGen, varsNamer>>

\* Lines 544-546 and 359-369: genBindings is entered with the symbol table.
CallGenBindings ==
    /\ runPc = "callGenBindings"
    /\ genIR' = parseRes.irData
    /\ genPc' = "bind"
    /\ genPos' = 1
    /\ bindings' = <<>>
    /\ resErr' = <<>>
    /\ deps' = NoDeps
    /\ synthLog' = <<>>
    /\ genericIfaceImpls' = <<>>
    /\ scanKeys' = <<>>
    /\ scanPos' = 0
    /\ addedImpl' = FALSE
    /\ implCalls' = [k \in GenericKeys |-> <<>>]
    /\ passNo' = 0
    /\ runPc' = "genBindings"
    /\ UNCHANGED <<warn, runRest, varsCmp, varsMod, varsNamer>>

\* Lines 558-577: bindings.txt is loaded if it exists, and saved.
BindingList ==
    /\ runPc = "bindingList"
    /\ \/ /\ fs.bindingsTxt # "absent"
          /\ ReturnFatal("load bindings.txt")
          /\ UNCHANGED fs
       \/ /\ fs' \in AfterFailedWrite("bindingsTxt")
          /\ ReturnFatal("save bindings.txt")
       \/ /\ fs' = [fs EXCEPT !.bindingsTxt = "new"]
          /\ runPc' = "mkdir"
          /\ UNCHANGED <<warn, outFile, stats, err>>
    /\ UNCHANGED <<cfg, fs0, parseRes, varsCmp, varsMod, varsGen, varsNamer>>

\* Lines 583-608: the output directory is made and outFile is set.
MkdirAll ==
    /\ runPc = "mkdir"
    /\ \/ /\ ReturnFatal("mkdir")
          /\ UNCHANGED fs
       \/ /\ fs' = [fs EXCEPT !.outDir = IF @ = "absent" THEN "new" ELSE @]
          /\ outFile' = "generated.go"
          /\ runPc' = "customGo"
          /\ UNCHANGED <<warn, stats, err>>
    /\ UNCHANGED <<cfg, fs0, parseRes, varsCmp, varsMod, varsGen, varsNamer>>

\* Lines 610-629: custom.go is written unless it exists.
CustomGo ==
    /\ runPc = "customGo"
    /\ IF fs.customGo = "absent"
       THEN \/ /\ fs' \in AfterFailedWrite("customGo")
               /\ ReturnFatal("save custom.go")
            \/ /\ fs' = [fs EXCEPT !.customGo = "new"]
               /\ runPc' = "dummy"
               /\ UNCHANGED <<warn, outFile, stats, err>>
       ELSE \/ /\ ReturnFatal("stat custom.go")
               /\ UNCHANGED fs
            \/ /\ runPc' = "dummy"
               /\ UNCHANGED <<warn, outFile, stats, err, fs>>
    /\ UNCHANGED <<cfg, fs0, parseRes, varsCmp, varsMod, varsGen, varsNamer>>

\* Lines 631-652: generated.not.go is removed, or written when the config
\* names a build flag.
DummyFile ==
    /\ runPc = "dummy"
    /\ IF cfg.DontBuildFlag = ""
       THEN IF fs.notGo # "absent"
            THEN \/ /\ ReturnFatal("remove generated.not.go")
                    /\ UNCHANGED fs
                 \/ /\ fs' = [fs EXCEPT !.notGo = "absent"]
                    /\ runPc' = "buildCode"
                    /\ UNCHANGED <<warn, outFile, stats, err>>
            ELSE /\ runPc' = "buildCode"
                 /\ UNCHANGED <<warn, outFile, stats, err, fs>>
       ELSE \/ /\ fs' \in AfterFailedWrite("notGo")
               /\ ReturnFatal("save binding dummy")
            \/ /\ fs' = [fs EXCEPT !.notGo = "new"]
               /\ runPc' = "buildCode"
               /\ UNCHANGED <<warn, outFile, stats, err>>
    /\ UNCHANGED <<cfg, fs0, parseRes, varsCmp, varsMod, varsGen, varsNamer>>

\* Lines 654-831: the bindings are sorted and their priorities and name
\* candidates computed; the first pass of the conflict loop starts.
BeginNaming ==
    /\ runPc = "buildCode"
    /\ \E binds \in [1..Len(bindings) -> RunBindingUniverse] :
          /\ sortedBindings' = binds
          /\ namePrios' = Prios(binds)
          /\ nameCandidates' = Candidates(binds)
          /\ everPeers' = PeerPairs(Candidates(binds))
          /\ passStart' = Candidates(binds)
    /\ topNames' = <<>>
    /\ foundConflict' = FALSE
    /\ namerI' = 1
    /\ namerPc' = "loop"
    /\ bindingNames' = <<>>
    /\ runPc' = "naming"
    /\ UNCHANGED <<warn, runRest, varsCmp, varsMod, varsGen>>

\* Lines 873-940: generated.go is saved; a formatting error is a warning.
SaveGenerated ==
    /\ runPc = "emit"
    /\ \/ /\ fs' \in AfterFailedWrite("genGo")
          /\ ReturnFatal("save bindings")
       \/ /\ fs' = [fs EXCEPT !.genGo = "new"]
          /\ \E fmtErr \in BOOLEAN :
                warn' = IF fmtErr THEN Append(warn, "cannot format bindings")
                        ELSE warn
          /\ runPc' = "stats"
          /\ UNCHANGED <<outFile, stats, err>>
    /\ UNCHANGED <<cfg, fs0, parseRes, varsCmp, varsMod, varsGen, varsNamer>>

\* Lines 942-991: return outFile, stats, warn, nil
ReturnStats ==
    /\ runPc = "stats"
    /\ stats' = "stats"
    /\ runPc' = "returned"
    /\ UNCHANGED <<warn, outFile, err, cfg, fs, fs0, parseRes, varsCmp,
                   varsMod, varsGen, varsNamer>>

NextRun ==
    \/ ReadConfig
    \/ GetRepo
    \/ ParsePkgs
    \/ CallGenBindings
    \/ GenerateFunc
    \/ GenerateValue
    \/ StartPass
    \/ VisitImplemented
    \/ VisitPending
    \/ EndPass
    \/ HandleGenBindings
    \/ BindingList
    \/ MkdirAll
    \/ CustomGo
    \/ DummyFile
    \/ BeginNaming
    \/ NamerExhausted
    \/ NamerRegister
    \/ NamerPopSelf
    \/ NamerPopOther
    \/ NamerRename
    \/ NamerPassEnd
    \/ SaveGenerated
    \/ ReturnStats

SpecRun == InitRun /\ [][NextRun]_vars

\* C9: a run that returns a fatal error has created, rewritten or removed
\* none of custom.go, generated.not.go, generated.go and bindings.txt, and
\* returns an empty output path, empty stats and no warnings.
C9_NoPartialOutput ==
    runPc = "fatal" =>
        /\ fs.customGo = fs0.customGo
        /\ fs.notGo = fs0.notGo
        /\ fs.genGo = fs0.genGo
        /\ fs.bindingsTxt = fs0.bindingsTxt
        /\ outFile = ""
        /\ stats = ""
        /\ warn = <<>>

\* C10: when parsePkgs returns a partial table with diagnostics, the run is
\* not aborted, generates bindings from the partial table and returns the
\* diagnostics among its warnings.
C10_DiagnosticsNonFatal ==
    (parseRes.multi /\ parseRes.err # <<>>) =>
        /\ runPc # "fatal"
        /\ genPc # "idle" => genIR = parseRes.irData
        /\ runPc = "returned" =>
              \A k \in 1..Len(parseRes.err) :
                 \E w \in 1..Len(warn) : warn[w] = parseRes.err[k]

\* Binding namerI is about to meet the holder of its top name, and the two
\* have the same priority.
TieAt(i) ==
    /\ namerPc = "loop"
    /\ i = namerI
    /\ i <= Len(sortedBindings)
    /\ Len(nameCandidates[i]) > 0
    /\ nameCandidates[i][1] \in DOMAIN topNames
    /\ namePrios[topNames[nameCandidates[i][1]]] = namePrios[i]

\* C14: when a binding meets an earlier binding of the same priority under
\* the same top name, the earlier one is left unchanged, the later one has
\* "-1" appended to its top candidate and keeps the length of its candidate
\* list, exactly one warning naming both is added, and the run does not
\* fail in that step; no warning is added in any other step.
C14_TieRename ==
    [][/\ \A i \in 1..Len(sortedBindings) :
            TieAt(i) =>
                LET topName == nameCandidates[i][1]
                    otherI == topNames[topName]
                IN  /\ otherI < i
                    /\ nameCandidates' =
                          [nameCandidates EXCEPT
                              ![i][1] = topName \o <<"-", "1">>]
                    /\ Len(nameCandidates'[i]) = Len(nameCandidates[i])
                    /\ Len(warn') = Len(warn) + 1
                    /\ warn'[Len(warn')].a = i
                    /\ warn'[Len(warn')].b = otherI
                    /\ SubSeq(warn', 1, Len(warn)) = warn
                    /\ namerPc' # "fatal"
       /\ Len(warn') > Len(warn) =>
              \E i \in 1..Len(sortedBindings) : TieAt(i)]_vars

\* A binding has been renamed once, and its candidate list is as long as
\* it was.
C14_Witness ==
    /\ namerPc = "loop"
    /\ Len(warn) = 1
    /\ \E i \in 1..Len(sortedBindings) :
          /\ Len(nameCandidates[i]) = 2
          /\ Len(sortedBindings[i].cands) = 2
          /\ nameCandidates[i][1] = sortedBindings[i].cands[1] \o <<"-", "1">>

\* The bindings whose top name at the start of the pass is that of m.
GroupOf(m) ==
    { j \in 1..Len(sortedBindings) :
        /\ Len(passStart[j]) > 0
        /\ Len(passStart[m]) > 0
        /\ passStart[j][1] = passStart[m][1] }

\* C15: at the end of a pass, in every group of two or more bindings that
\* had the same top name when the pass started and in which one member has
\* the strictly lowest priority value, that member has its candidates
\* unchanged and every other member has had its top candidate popped.
C15_GroupRule ==
    (namerPc = "loop" /\ namerI > Len(sortedBindings)) =>
        \A m \in 1..Len(sortedBindings) :
            (/\ Cardinality(GroupOf(m)) >= 2
             /\ \A o \in GroupOf(m) \ {m} : namePrios[m] < namePrios[o])
                => /\ nameCandidates[m] = passStart[m]
                   /\ \A o \in GroupOf(m) \ {m} :
                         nameCandidates[o] = Tail(passStart[o])

\* The next loop body is that of a struct constructor whose unique key is
\* the key of a binding already in the list.
DuplicateCtorNext ==
    /\ genPc = "bind"
    /\ genPos <= Len(Items(genIR))
    /\ Items(genIR)[genPos].cat = "ctor"
    /\ ~Items(genIR)[genPos].skip
    /\ HasBinding(bindings, Items(genIR)[genPos].key)

\* C16: the loop body of a struct constructor whose unique key is that of a
\* binding already produced leaves the bindings, the diagnostics and the
\* shared Dependencies as they are.
C16_CtorSuppressed ==
    [][DuplicateCtorNext =>
          /\ bindings' = bindings
          /\ resErr' = resErr
          /\ deps' = deps]_vars

\* The conflict loop runs until it is left: nothing else can stop it.
\* The bindings' candidate lists are those that collide with each other.
CollidingBindings ==
    [mod : BindingModules, cands : {<<nameX>>, <<nameX, nameY>>, <<nameX1>>}]

InitNamerLive ==
    /\ \E n \in 1..MaxBindings :
          \E binds \in [1..n -> CollidingBindings] : NamerStartOn(binds)
    /\ runPc = "naming"
    /\ warn = <<>>
    /\ IdleRunRest
    /\ IdleCmp /\ IdleMod /\ IdleGen

SpecNamerLive == InitNamerLive /\ [][NextNamer]_vars /\ WF_vars(NextNamer)

\* C17: the conflict loop eventually ends; it ends without error only after
\* a pass that found no conflict, and with the exhaustion error only at a
\* binding whose candidate list is empty.
C17_NamerTerminates ==
    /\ <>(namerPc = "done" \/ namerPc = "fatal")
    /\ [][/\ (namerPc # "done" /\ namerPc' = "done") =>
               (namerI > Len(sortedBindings) /\ ~foundConflict)
          /\ (namerPc # "fatal" /\ namerPc' = "fatal") =>
               Len(nameCandidates[namerI]) = 0]_vars

\* The loop has ended without error after three renames.
C17_Witness ==
    /\ namerPc = "done"
    /\ Len(warn) >= 3

====
